---- MODULE Spec2Model ----
(***************************************************************************)
(* Model of homeassistant/components/noaa_tides/sensor.py: the sensor      *)
(* NOAATidesAndCurrentsSensor with its update() poll and its two read      *)
(* accessors native_value and extra_state_attributes.                      *)
(*                                                                         *)
(* Python strings that the code takes apart or builds (time strings,       *)
(* water levels, formatted times, the summary) are sequences of            *)
(* one-character strings.  Python exceptions are outcomes: a call either   *)
(* returns or raises, and the record of the call says which.               *)
(***************************************************************************)
EXTENDS Integers, Sequences, FiniteSets

(***************************************************************************)
(* Bounds of the model.                                                    *)
(***************************************************************************)
\* longest "predictions" array a response carries
MaxEvents == 3
\* most update() calls that complete while one accessor call is running
MaxOverlap == 2

(***************************************************************************)
(* Characters and numbers.                                                 *)
(***************************************************************************)
DigitChars == <<"0", "1", "2", "3", "4", "5", "6", "7", "8", "9">>

IsDigit(c) == \E i \in 1..10 : DigitChars[i] = c

DigitVal(c) == (CHOOSE i \in 1..10 : DigitChars[i] = c) - 1

AllDigits(s) == \A i \in 1..Len(s) : IsDigit(s[i])

RECURSIVE NumVal(_)
NumVal(s) == IF s = <<>> THEN 0
             ELSE 10 * NumVal(SubSeq(s, 1, Len(s) - 1)) + DigitVal(s[Len(s)])

Pad2(n) == <<DigitChars[(n \div 10) + 1], DigitChars[(n % 10) + 1]>>

Pad4(n) == Pad2(n \div 100) \o Pad2(n % 100)

\* a decimal number as Python's float() reads it: [-]digits[.digits]
IsNumeric(s) ==
    LET body == IF s # <<>> /\ s[1] = "-" THEN Tail(s) ELSE s
        dots == {i \in 1..Len(body) : body[i] = "."}
    IN  /\ body # <<>>
        /\ Cardinality(dots) <= 1
        /\ \A i \in 1..Len(body) : i \in dots \/ IsDigit(body[i])
        /\ \E i \in 1..Len(body) : IsDigit(body[i])

(***************************************************************************)
(* datetime values, dateutil's parser.parse and datetime.strftime.         *)
(***************************************************************************)
NoTime == [year |-> 0, month |-> 0, day |-> 0, hour |-> 0, minute |-> 0]

IsLeap(y) == (y % 4 = 0 /\ y % 100 # 0) \/ y % 400 = 0

DaysInMonth(y, m) ==
    IF m = 2 THEN (IF IsLeap(y) THEN 29 ELSE 28)
    ELSE IF m \in {4, 6, 9, 11} THEN 30 ELSE 31

\* the shape of the upstream time strings: YYYY-MM-DD HH:MM, with a blank
\* or a T between the date and the time
TimeShape(s) ==
    /\ Len(s) = 16
    /\ AllDigits(SubSeq(s, 1, 4))
    /\ s[5] = "-"
    /\ AllDigits(SubSeq(s, 6, 7))
    /\ s[8] = "-"
    /\ AllDigits(SubSeq(s, 9, 10))
    /\ s[11] \in {" ", "T"}
    /\ AllDigits(SubSeq(s, 12, 13))
    /\ s[14] = ":"
    /\ AllDigits(SubSeq(s, 15, 16))

TimeFields(s) ==
    [year   |-> NumVal(SubSeq(s, 1, 4)),
     month  |-> NumVal(SubSeq(s, 6, 7)),
     day    |-> NumVal(SubSeq(s, 9, 10)),
     hour   |-> NumVal(SubSeq(s, 12, 13)),
     minute |-> NumVal(SubSeq(s, 15, 16))]

\* parser.parse(s) returns a datetime exactly when this holds, and raises
\* ParserError, a ValueError, otherwise
Parses(s) ==
    /\ TimeShape(s)
    /\ LET f == TimeFields(s)
       IN  /\ f.year >= 1
           /\ f.month \in 1..12
           /\ f.day \in 1..DaysInMonth(f.year, f.month)
           /\ f.hour \in 0..23
           /\ f.minute \in 0..59

parse(s) == TimeFields(s)

\* strftime("%Y-%m-%dT%H:%M")
strftime_iso(ts) ==
    Pad4(ts.year) \o <<"-">> \o Pad2(ts.month) \o <<"-">> \o Pad2(ts.day)
        \o <<"T">> \o Pad2(ts.hour) \o <<":">> \o Pad2(ts.minute)

Hour12NoTwelve(h) == h % 12

\* the hour of the 12-hour clock, %I
Hour12(h) == IF h % 12 = 0 THEN 12 ELSE h % 12

\* strftime("%-I:%M %p")
strftime_12h(ts) ==
    LET h == Hour12(ts.hour)
    IN  (IF h >= 10 THEN Pad2(h) ELSE <<DigitChars[h + 1]>>)
            \o <<":">> \o Pad2(ts.minute) \o <<" ">>
            \o (IF ts.hour < 12 THEN <<"A", "M">> ELSE <<"P", "M">>)

HighTideAt == <<"H", "i", "g", "h", " ", "t", "i", "d", "e", " ", "a", "t", " ">>

LowTideAt == <<"L", "o", "w", " ", "t", "i", "d", "e", " ", "a", "t", " ">>

(***************************************************************************)
(* The upstream service: what one request can come back with.              *)
(*                                                                         *)
(* A response is a transport failure (RequestException, timeout included), *)
(* a body that is not JSON, or a decoded JSON object that may lack         *)
(* "predictions" or carry something that is no array there.  A record of   *)
(* the array has the keys listed in its field keys.                        *)
(***************************************************************************)
\* strings of the upstream records, character by character
T1305 == <<"2", "0", "2", "4", "-", "0", "6", "-", "0", "1", " ", "1", "3", ":", "0", "5">>

T0030 == <<"2", "0", "2", "4", "-", "0", "6", "-", "0", "2", " ", "0", "0", ":", "3", "0">>

T0709 == <<"2", "0", "2", "4", "-", "0", "6", "-", "0", "2", "T", "0", "7", ":", "0", "9">>

T1200 == <<"2", "0", "2", "4", "-", "0", "6", "-", "0", "1", " ", "1", "2", ":", "0", "0">>

T2505 == <<"2", "0", "2", "4", "-", "0", "6", "-", "0", "1", " ", "2", "5", ":", "0", "5">>

V23 == <<"2", ".", "3">>

VNEG == <<"-", "0", ".", "1", "2">>

V10 == <<"1", ".", "0">>

VABC == <<"a", "b", "c">>

V05 == <<"0", ".", "5">>

AllKeys == {"t", "type", "v"}

RecHigh == [keys |-> AllKeys, t |-> T1305, type |-> "H", v |-> V23]

RecLow == [keys |-> AllKeys, t |-> T0030, type |-> "L", v |-> VNEG]

\* a type code that is neither H nor L
RecOther == [keys |-> AllKeys, t |-> T0709, type |-> "HH", v |-> V10]

\* a water level that is no number
RecBadLevel == [keys |-> AllKeys, t |-> T1200, type |-> "H", v |-> VABC]

\* a time string with hour 25
RecBadTime == [keys |-> AllKeys, t |-> T2505, type |-> "L", v |-> V05]

RecNoTime == [keys |-> {"type", "v"}, t |-> <<>>, type |-> "H", v |-> V23]

RecNoLevel == [keys |-> {"t", "type"}, t |-> T1305, type |-> "H", v |-> <<>>]

Canon(n) == [i \in 1..n |-> IF i % 2 = 1 THEN RecHigh ELSE RecLow]

InsertAt(s, i, r) == SubSeq(s, 1, i - 1) \o <<r>> \o SubSeq(s, i, Len(s))

\* every array of high and low records up to the bound
PlainLists == UNION {[1..n -> {RecHigh, RecLow}] : n \in 0..MaxEvents}

\* an alternating array with one unusual record somewhere in it
OddLists ==
    UNION {UNION {{InsertAt(Canon(n), i, r) :
                      r \in {RecOther, RecBadLevel, RecBadTime, RecNoTime, RecNoLevel}} :
                  i \in 1..(n + 1)} :
           n \in 0..(MaxEvents - 1)}

JsonBody(has, list, items) ==
    [kind |-> "json", has_predictions |-> has, is_list |-> list, items |-> items]

NoResponse == [kind |-> "none", has_predictions |-> FALSE, is_list |-> FALSE, items |-> <<>>]

FailedRequest == [NoResponse EXCEPT !.kind = "RequestException"]

NotJson == [NoResponse EXCEPT !.kind = "InvalidJSON"]

Responses ==
    {FailedRequest, NotJson, JsonBody(FALSE, FALSE, <<>>), JsonBody(TRUE, FALSE, <<>>)}
        \cup {JsonBody(TRUE, TRUE, l) : l \in PlainLists \cup OddLists}

(***************************************************************************)
(* The sensor's state.                                                     *)
(***************************************************************************)
TIMEZONES == {"gmt", "lst", "lst_ldt"}

UNIT_SYSTEMS == {"english", "metric"}

StationIds == {"8721164", "9414290"}

VARIABLES
    station_id,     \* self._station_id
    timezone,       \* self._timezone
    unit_system,    \* self._unit_system
    data,           \* self.data: None or the list of NOAATidesData
    params,         \* the query of the last request update() sent
    response,       \* what the last request came back with
    polled,         \* whether update() has been called since construction
    prior,          \* the tag of self.data when the last update() began
    call,           \* the method called last
    result,         \* how that call ended: what it returned or raised
    reader,         \* the accessor call in progress on another thread
    seen            \* the values self.data has had during that call

config == <<station_id, timezone, unit_system>>

vars == <<station_id, timezone, unit_system, data, params, response, polled,
          prior, call, result, reader, seen>>

None == [tag |-> "None", items |-> <<>>]

List(items) == [tag |-> "list", items |-> items]

NOAATidesData(r) == [time_stamp |-> parse(r.t), hi_lo |-> r.type, predicted_wl |-> r.v]

EmptyAttr == [k \in {} |-> <<>>]

Put(attr, key, val) ==
    [k \in DOMAIN attr \cup {key} |-> IF k = key THEN val ELSE attr[k]]

(***************************************************************************)
(* update(): one request, the parse of its response, the except clauses.   *)
(***************************************************************************)
\* the exception the list comprehension's element raises for record r, ""
\* when it builds the NOAATidesData: parser.parse(r["t"]), r["type"], r["v"]
RecordRaises(r) ==
    IF "t" \notin r.keys THEN "KeyError"
    ELSE IF ~Parses(r.t) THEN "ValueError"
    ELSE IF "type" \notin r.keys THEN "KeyError"
    ELSE IF "v" \notin r.keys THEN "KeyError"
    ELSE ""

\* the comprehension goes through the array in order: the first record that
\* raises ends it
ComprehensionRaises(items) ==
    LET bad == {i \in 1..Len(items) : RecordRaises(items[i]) # ""}
    IN  IF bad = {} THEN ""
        ELSE RecordRaises(items[CHOOSE i \in bad : \A j \in bad : i <= j])

\* the body of the try: the exception it raises ("" for none) and the list
\* it assigns to self.data when it raises none
TryBody(resp) ==
    IF resp.kind = "RequestException" THEN [exc |-> "RequestException", items |-> <<>>]
    ELSE IF resp.kind = "InvalidJSON" THEN [exc |-> "JSONDecodeError", items |-> <<>>]
    ELSE IF ~resp.has_predictions THEN [exc |-> "KeyError", items |-> <<>>]
    ELSE IF ~resp.is_list THEN [exc |-> "TypeError", items |-> <<>>]
    ELSE IF ComprehensionRaises(resp.items) # ""
        THEN [exc |-> ComprehensionRaises(resp.items), items |-> <<>>]
    ELSE [exc |-> "",
          items |-> [i \in 1..Len(resp.items) |-> NOAATidesData(resp.items[i])]]

\* requests' JSONDecodeError is a ValueError and a RequestException both;
\* dateutil's ParserError is a ValueError
IsValueError(exc) == exc \in {"ValueError", "JSONDecodeError"}

IsRequestException(exc) == exc \in {"RequestException", "JSONDecodeError"}

\* except ValueError: self.data = None
ExceptValueError(d) == None

ExceptRequestExceptionKeepsData(d) == d

\* except requests.exceptions.RequestException: self.data = None
ExceptRequestException(d) == None

\* TryBody, tabulated over the responses of the model
TryBodyOf == [resp \in Responses |-> TryBody(resp)]

\* the whole of update() on self.data = d: the new self.data and the
\* exception that leaves update() ("" when it returns)
update(d, resp) ==
    LET body == TryBodyOf[resp]
    IN  IF body.exc = "" THEN [data |-> List(body.items), exc |-> ""]
        ELSE IF IsValueError(body.exc) THEN [data |-> ExceptValueError(d), exc |-> ""]
        ELSE IF IsRequestException(body.exc)
            THEN [data |-> ExceptRequestException(d), exc |-> ""]
        ELSE [data |-> d, exc |-> body.exc]

\* the query update() sends, without its begin_date and end_date
Params(station, tz, units) ==
    [product |-> "predictions", datum |-> "MLLW", interval |-> "hilo",
     units |-> units, time_zone |-> tz, format |-> "json", station |-> station]

(***************************************************************************)
(* The accessors, one step per read of self.data.  pc is the source line   *)
(* of the read that comes next; "return" and "raise" end the call.         *)
(***************************************************************************)
Frame(pc) ==
    [pc |-> pc, attr |-> EmptyAttr, api_time |-> NoTime, none |-> TRUE,
     text |-> <<>>, exc |-> ""]

\* self.data[i] on self.data = d: None is not subscriptable, a short list
\* has no index i
SubscriptRaises(d, i) ==
    IF d.tag = "None" THEN "TypeError"
    ELSE IF i >= Len(d.items) THEN "IndexError"
    ELSE ""

Item(d, i) == d.items[i + 1]

Goto(f, pc) == [f EXCEPT !.pc = pc]

Return(f) == [f EXCEPT !.pc = "return"]

Raise(f, exc) == [f EXCEPT !.pc = "raise", !.exc = exc]

ReturnText(f, text) == [f EXCEPT !.pc = "return", !.none = FALSE, !.text = text]

\* attr[key] = self.data[i]["time_stamp"].strftime("%Y-%m-%dT%H:%M")
StoreTime(f, d, i, key, next) ==
    IF SubscriptRaises(d, i) # "" THEN Raise(f, SubscriptRaises(d, i))
    ELSE [f EXCEPT !.attr = Put(f.attr, key, strftime_iso(Item(d, i).time_stamp)),
                   !.pc = next]

\* attr[key] = self.data[i]["predicted_wl"]
StoreLevel(f, d, i, key, next) ==
    IF SubscriptRaises(d, i) # "" THEN Raise(f, SubscriptRaises(d, i))
    ELSE [f EXCEPT !.attr = Put(f.attr, key, Item(d, i).predicted_wl), !.pc = next]

\* if self.data[i]["hi_lo"] == code
TestKind(f, d, i, code, then, else) ==
    IF SubscriptRaises(d, i) # "" THEN Raise(f, SubscriptRaises(d, i))
    ELSE IF Item(d, i).hi_lo = code THEN then ELSE else

Step(f, d) ==
    CASE f.pc = "L101" -> IF d.tag = "None" THEN Return(f) ELSE Goto(f, "L103")
      [] f.pc = "L103" -> TestKind(f, d, 1, "H", Goto(f, "L104"), Goto(f, "L112"))
      [] f.pc = "L104" -> StoreTime(f, d, 1, "high_tide_time", "L107")
      [] f.pc = "L107" -> StoreLevel(f, d, 1, "high_tide_height", "L108")
      [] f.pc = "L108" -> StoreTime(f, d, 2, "low_tide_time", "L111")
      [] f.pc = "L111" -> StoreLevel(f, d, 2, "low_tide_height", "return")
      [] f.pc = "L112" -> TestKind(f, d, 1, "L", Goto(f, "L113"), Return(f))
      [] f.pc = "L113" -> StoreTime(f, d, 1, "low_tide_time", "L116")
      [] f.pc = "L116" -> StoreLevel(f, d, 1, "low_tide_height", "L117")
      [] f.pc = "L117" -> StoreTime(f, d, 2, "high_tide_time", "L120")
      [] f.pc = "L120" -> StoreLevel(f, d, 2, "high_tide_height", "return")
      [] f.pc = "L126" -> IF d.tag = "None" THEN Return(f) ELSE Goto(f, "L128")
      [] f.pc = "L128" ->
            IF SubscriptRaises(d, 0) # "" THEN Raise(f, SubscriptRaises(d, 0))
            ELSE [f EXCEPT !.api_time = Item(d, 0).time_stamp, !.pc = "L129"]
      [] f.pc = "L129" ->
            TestKind(f, d, 0, "H",
                     ReturnText(f, HighTideAt \o strftime_12h(f.api_time)),
                     Goto(f, "L132"))
      [] f.pc = "L132" ->
            TestKind(f, d, 0, "L",
                     ReturnText(f, LowTideAt \o strftime_12h(f.api_time)),
                     Return(f))

Ended(f) == f.pc \in {"return", "raise"}

\* a call that runs to its end with self.data = d throughout
RECURSIVE Run(_, _)
Run(f, d) == IF Ended(f) THEN f ELSE Run(Step(f, d), d)

\* how a call ended: returned or raised, and what
Outcome(f) ==
    [kind |-> f.pc, exc |-> f.exc, none |-> f.none, text |-> f.text, attr |-> f.attr]

Returned == Outcome(Return(Frame("")))

Raised(exc) == Outcome(Raise(Frame(""), exc))

Entry(op) == IF op = "native_value" THEN Frame("L126") ELSE Frame("L101")

native_value(d) == Outcome(Run(Entry("native_value"), d))

\* the pairing read from self.data[0] and self.data[1]
extra_state_attributes_from_first(d) ==
    Outcome(Run(Entry("extra_state_attributes"),
                IF d.tag = "list" /\ d.items # <<>>
                THEN List(<<d.items[1]>> \o d.items) ELSE d))

extra_state_attributes(d) == Outcome(Run(Entry("extra_state_attributes"), d))

(***************************************************************************)
(* The sensor as a state machine.                                          *)
(***************************************************************************)
NoParams == Params("", "", "")

Idle == [op |-> "idle", frame |-> Frame(""), polls |-> 0]

InitialDataEmptyList == List(<<>>)

\* __init__: self.data = None
InitialData == None

Init ==
    /\ station_id \in StationIds
    /\ timezone \in TIMEZONES
    /\ unit_system \in UNIT_SYSTEMS
    /\ data = InitialData
    /\ params = NoParams
    /\ response = NoResponse
    /\ polled = FALSE
    /\ prior = "None"
    /\ call = "__init__"
    /\ result = Returned
    /\ reader = Idle
    /\ seen = {}

\* one call of update() that the request answers with resp
PollWith(resp) ==
    LET u == update(data, resp)
    IN  /\ data' = u.data
        /\ params' = Params(station_id, timezone, unit_system)
        /\ response' = resp
        /\ polled' = TRUE
        /\ prior' = data.tag
        /\ call' = "update"
        /\ result' = IF u.exc = "" THEN Returned ELSE Raised(u.exc)
        /\ UNCHANGED config

\* update(), no accessor running
Poll ==
    /\ \E resp \in Responses : PollWith(resp)
    /\ UNCHANGED <<reader, seen>>

\* a native_value that takes the event it reports off the list
CurrentSummaryConsumes ==
    /\ call' = "native_value"
    /\ result' = native_value(data)
    /\ data' = IF data.tag = "list" /\ data.items # <<>>
               THEN List(Tail(data.items)) ELSE data
    /\ UNCHANGED <<config, params, response, polled, prior, reader, seen>>

\* the host reads native_value
CurrentSummary ==
    /\ call' = "native_value"
    /\ result' = native_value(data)
    /\ UNCHANGED <<config, data, params, response, polled, prior, reader, seen>>

\* the host reads extra_state_attributes
CurrentAttributes ==
    /\ call' = "extra_state_attributes"
    /\ result' = extra_state_attributes(data)
    /\ UNCHANGED <<config, data, params, response, polled, prior, reader, seen>>

Next == Poll \/ CurrentSummary \/ CurrentAttributes

Spec == Init /\ [][Next]_vars

(***************************************************************************)
(* The same sensor with update() on one thread and an accessor on another: *)
(* the accessor reads self.data once per step, update() assigns it in one. *)
(***************************************************************************)
ThreeEvents == <<RecHigh, RecLow, RecHigh>>

ConcurrentResponses ==
    {FailedRequest,
     JsonBody(TRUE, TRUE, ThreeEvents),
     JsonBody(TRUE, TRUE, <<RecLow, RecHigh, RecLow>>),
     JsonBody(TRUE, TRUE, <<RecLow, RecHigh>>)}

Reading == reader.op # "idle"

ConcurrentPoll ==
    /\ Reading => reader.polls < MaxOverlap
    /\ \E resp \in ConcurrentResponses : PollWith(resp)
    /\ reader' = IF Reading THEN [reader EXCEPT !.polls = @ + 1] ELSE reader
    /\ seen' = IF Reading THEN seen \cup {data'} ELSE seen

BeginRead ==
    /\ ~Reading
    /\ \E op \in {"native_value", "extra_state_attributes"} :
          reader' = [op |-> op, frame |-> Entry(op), polls |-> 0]
    /\ seen' = {data}
    /\ UNCHANGED <<config, data, params, response, polled, prior, call, result>>

ReadStep ==
    /\ Reading
    /\ ~Ended(reader.frame)
    /\ reader' = [reader EXCEPT !.frame = Step(reader.frame, data)]
    /\ UNCHANGED <<config, data, params, response, polled, prior, call, result, seen>>

EndRead ==
    /\ Reading
    /\ Ended(reader.frame)
    /\ call' = reader.op
    /\ result' = Outcome(reader.frame)
    /\ reader' = Idle
    /\ seen' = {}
    /\ UNCHANGED <<config, data, params, response, polled, prior>>

NextConcurrent == ConcurrentPoll \/ BeginRead \/ ReadStep \/ EndRead

SpecConcurrent == Init /\ [][NextConcurrent]_vars

(***************************************************************************)
(* What the properties below speak of.                                     *)
(***************************************************************************)
Unavailable == data.tag = "None"

\* the summary is absent: native_value returns None
SummaryAbsent(r) == r.kind = "return" /\ r.none

\* the attributes are the empty mapping
AttributesEmpty(r) == r.kind = "return" /\ DOMAIN r.attr = {}

FourKeys == {"high_tide_time", "high_tide_height", "low_tide_time", "low_tide_height"}

\* the record is complete and its time string is a time
WellFormedRecord(r) == r.keys = AllKeys /\ Parses(r.t)

\* the last update() got a decoded response whose "predictions" is an array
\* of complete records with readable times
WellFormedResponse ==
    /\ polled
    /\ response.kind = "json"
    /\ response.has_predictions
    /\ response.is_list
    /\ \A i \in 1..Len(response.items) : WellFormedRecord(response.items[i])

\* the text YYYY-MM-DDTHH:MM of an upstream time string
IsoText(t) == [t EXCEPT ![11] = "T"]

\* a text "h:mm AM" or "hh:mm PM" read back: well shaped, no leading zero,
\* and the minute of the day it names
ClockShape(s) ==
    /\ Len(s) \in {7, 8}
    /\ s[Len(s) - 5] = ":"
    /\ AllDigits(SubSeq(s, 1, Len(s) - 6))
    /\ AllDigits(SubSeq(s, Len(s) - 4, Len(s) - 3))
    /\ s[Len(s) - 2] = " "
    /\ s[Len(s) - 1] \in {"A", "P"}
    /\ s[Len(s)] = "M"
    /\ s[1] # "0"
    /\ NumVal(SubSeq(s, 1, Len(s) - 6)) \in 1..12

ClockMinute(s) ==
    ((NumVal(SubSeq(s, 1, Len(s) - 6)) % 12)
        + (IF s[Len(s) - 1] = "P" THEN 12 ELSE 0)) * 60
        + NumVal(SubSeq(s, Len(s) - 4, Len(s) - 3))

\* the minute of the day of an upstream time string
RawMinute(t) == NumVal(SubSeq(t, 12, 13)) * 60 + NumVal(SubSeq(t, 15, 16))

\* text is prefix followed by the 12-hour clock text of the time string t
SummaryIs(text, prefix, t) ==
    /\ Len(text) > Len(prefix)
    /\ SubSeq(text, 1, Len(prefix)) = prefix
    /\ LET clock == SubSeq(text, Len(prefix) + 1, Len(text))
       IN  ClockShape(clock) /\ ClockMinute(clock) = RawMinute(t)

OneToOnePM == <<"1", ":", "0", "5", " ", "P", "M">>

(***************************************************************************)
(* The claims.                                                             *)
(***************************************************************************)

\* C1: whatever the client held before, an update() whose request fails
\* with a transport error or whose body is not JSON returns normally and
\* leaves the client unavailable: self.data is None, the summary is absent
\* and the attributes are empty; this also holds when it was unavailable
\* already.
C1_FailedPollLeavesUnavailable ==
    (polled /\ response.kind \in {"RequestException", "InvalidJSON"}) =>
        /\ Unavailable
        /\ SummaryAbsent(native_value(data))
        /\ AttributesEmpty(extra_state_attributes(data))
        /\ call = "update" => result = Returned
        /\ call = "native_value" => SummaryAbsent(result)
        /\ call = "extra_state_attributes" => AttributesEmpty(result)

C1_Witness ==
    /\ call = "update"
    /\ response = FailedRequest
    /\ prior = "list"
    /\ Unavailable

\* C2 (as claimed): an update() whose decoded response has no "predictions",
\* has no array there, or has a record without its t, type or v returns
\* normally and leaves the client unavailable.
C2_ParseFailureAbsorbed ==
    (/\ call = "update"
     /\ response.kind = "json"
     /\ \/ ~response.has_predictions
        \/ ~response.is_list
        \/ \E i \in 1..Len(response.items) : response.items[i].keys # AllKeys) =>
        result = Returned /\ Unavailable

\* C3 (as claimed): on a series of fewer than three events
\* extra_state_attributes does not raise.
C3_ShortSeriesAttributesContained ==
    (/\ call = "extra_state_attributes"
     /\ data.tag = "list"
     /\ Len(data.items) < 3) =>
        result.kind = "return"

\* C4: on a series of at least three events extra_state_attributes returns,
\* and event[1].kind alone decides the mapping: when it is H the mapping has
\* exactly the four keys with high_tide_* taken from event[1] and low_tide_*
\* from event[2]; when it is L it has exactly the four keys with low_tide_*
\* from event[1] and high_tide_* from event[2]; event[0] and the kind of
\* event[2] play no part.  The times read back as the events' timestamps,
\* the heights are the events' levels.  (For a kind that is neither H nor L
\* the mapping is empty.)
C4_AttributesFollowSecondEvent ==
    (/\ call = "extra_state_attributes"
     /\ data.tag = "list"
     /\ Len(data.items) >= 3) =>
        LET e1 == data.items[2]
            e2 == data.items[3]
            a  == result.attr
            From(tk, hk, e) ==
                /\ a[tk][11] = "T"
                /\ Parses(a[tk])
                /\ parse(a[tk]) = e.time_stamp
                /\ a[hk] = e.predicted_wl
        IN  /\ result.kind = "return"
            /\ e1.hi_lo = "H" =>
                  /\ DOMAIN a = FourKeys
                  /\ From("high_tide_time", "high_tide_height", e1)
                  /\ From("low_tide_time", "low_tide_height", e2)
            /\ e1.hi_lo = "L" =>
                  /\ DOMAIN a = FourKeys
                  /\ From("low_tide_time", "low_tide_height", e1)
                  /\ From("high_tide_time", "high_tide_height", e2)
            /\ e1.hi_lo \notin {"H", "L"} => DOMAIN a = {}

\* the only high event is event[0]: high_tide_* still comes from event[2]
C4_Witness ==
    /\ call = "extra_state_attributes"
    /\ data.tag = "list"
    /\ Len(data.items) >= 3
    /\ data.items[1].hi_lo = "H"
    /\ data.items[2].hi_lo = "L"
    /\ data.items[3].hi_lo = "L"
    /\ DOMAIN result.attr = FourKeys

\* C5: after an update() that got a well-formed response, self.data is that
\* response's events in upstream order and nothing else, and native_value
\* is decided by event[0] of it: "High tide at " and the time of event[0]
\* on the 12-hour clock without leading zero when its kind is H, "Low tide
\* at " and that time when it is L, None for any other kind.
C5_SummaryFollowsFirstEvent ==
    WellFormedResponse =>
        /\ data.tag = "list"
        /\ Len(data.items) = Len(response.items)
        /\ \A i \in 1..Len(response.items) :
              /\ data.items[i].hi_lo = response.items[i].type
              /\ data.items[i].predicted_wl = response.items[i].v
              /\ strftime_iso(data.items[i].time_stamp) = IsoText(response.items[i].t)
        /\ (call = "native_value" /\ response.items # <<>>) =>
              LET r == response.items[1]
              IN  /\ result.kind = "return"
                  /\ r.type = "H" =>
                        ~result.none /\ SummaryIs(result.text, HighTideAt, r.t)
                  /\ r.type = "L" =>
                        ~result.none /\ SummaryIs(result.text, LowTideAt, r.t)
                  /\ r.type \notin {"H", "L"} => result.none

\* a series replaces an earlier one; its first event is the high at 13:05
C5_Witness ==
    /\ WellFormedResponse
    /\ call = "native_value"
    /\ prior = "list"
    /\ Len(response.items) >= 3
    /\ response.items[1] = RecHigh
    /\ result.text = HighTideAt \o OneToOnePM

\* C6: for every configuration, before any update() the client is
\* unavailable: self.data is None, native_value returns None and
\* extra_state_attributes returns the empty mapping.
C6_FreshClientUnavailable ==
    ~polled =>
        /\ Unavailable
        /\ SummaryAbsent(native_value(data))
        /\ AttributesEmpty(extra_state_attributes(data))
        /\ call = "native_value" => SummaryAbsent(result)
        /\ call = "extra_state_attributes" => AttributesEmpty(result)

C6_Witness ==
    /\ ~polled
    /\ call = "extra_state_attributes"
    /\ timezone = "gmt"
    /\ unit_system = "metric"
    /\ AttributesEmpty(result)

\* C7 (as claimed): an accessor call that runs while update() runs ends as
\* it would have ended on one of the values self.data had during the call,
\* read throughout: it mixes no two series and does not fault because the
\* series went away after its None check.
C7_AccessorSeesOneSeries ==
    (Reading /\ Ended(reader.frame)) =>
        \E d \in seen : Outcome(reader.frame) = Outcome(Run(Entry(reader.op), d))

\* C8 (as claimed): an update() whose response has a record with a level
\* that is no number or a time that is no time leaves the client
\* unavailable, so no series the client holds has a level that is no number.
C8_MalformedFieldIsParseFailure ==
    /\ (/\ call = "update"
        /\ response.kind = "json"
        /\ \E i \in 1..Len(response.items) :
              /\ response.items[i].keys = AllKeys
              /\ ~Parses(response.items[i].t) \/ ~IsNumeric(response.items[i].v)) =>
           Unavailable
    /\ data.tag = "list" =>
           \A i \in 1..Len(data.items) : IsNumeric(data.items[i].predicted_wl)

\* C9 (as claimed): native_value never raises; on an empty series it
\* returns None.
C9_SummaryNeverRaises ==
    call = "native_value" =>
        /\ result.kind = "return"
        /\ (data.tag = "list" /\ data.items = <<>>) => result.none

\* C10: only update() changes self.data, and nothing changes the
\* configuration: a step that is not an update() leaves self.data as it
\* was, every step leaves station id, time zone and unit system as they
\* were, and an accessor called twice in a row returns the same result.
C10_OnlyPollChangesSeries ==
    [][/\ config' = config
       /\ call' # "update" => data' = data
       /\ (call' = call /\ call' # "update") => result' = result]_vars

C10_Witness ==
    /\ call = "native_value"
    /\ data.tag = "list"
    /\ Len(data.items) >= 3
    /\ ~result.none

====
